---- MODULE Spec2Model ----
(***************************************************************************)
(* Model of src/cnn/model.py: the RoCNN classifier's forward pass (as the  *)
(* tensor shapes it produces, statement by statement) and the checkpoint   *)
(* functions save_model / load_model acting on a filesystem.               *)
(*                                                                         *)
(* Two specifications:                                                     *)
(*   Spec     a session of save_model / load_model calls on one path       *)
(*   SpecFwd  one run of RoCNN.forward on one input tensor                 *)
(***************************************************************************)
EXTENDS Integers, Sequences, FiniteSets, TLC

VARIABLES
    os_name,   \* "posix" or "nt": which os / os.path the interpreter runs on
    path,      \* the `path` argument of the session's calls (sequence of chars)
    dirs,      \* filesystem: the directories that exist (set of keys)
    files,     \* filesystem: key -> contents of each regular file
    last,      \* record of the most recent save_model / load_model call
    fin,       \* forward: shape of the input tensor x
    x,         \* forward: shape of the local x at the current statement
    fpc        \* forward: the statement about to execute

vars == <<os_name, path, dirs, files, last, fin, x, fpc>>

ckptVars == <<os_name, path, dirs, files, last>>
fwdVars == <<fin, x, fpc>>

----------------------------------------------------------------------------
(* Bounds of the model *)

MaxBatch == 3      \* batch sizes 1..MaxBatch
SideSlack == 1     \* input height/width range over ImgSide -/+ SideSlack
MaxPathLen == 3    \* paths are strings of 1..MaxPathLen characters
MaxSeed == 2       \* distinct parameter valuations 1..MaxSeed

(* Program constants *)

ImgSide == 64      \* designed input height and width
ImgChannels == 6   \* designed input channel count

----------------------------------------------------------------------------
(* RoCNN.__init__: the layers and their hyperparameters *)

(* cv1 padded like cv2 and cv3. *)
cv1_padded == [in_channels |-> 6, out_channels |-> 32, padding |-> 1,
               kernel_size |-> 4, stride |-> 2]

cv1 == [in_channels |-> 6, out_channels |-> 32, padding |-> 0,
        kernel_size |-> 4, stride |-> 2]

cv2 == [in_channels |-> 32, out_channels |-> 64, padding |-> 1,
        kernel_size |-> 3, stride |-> 1]

cv3 == [in_channels |-> 64, out_channels |-> 64, padding |-> 1,
        kernel_size |-> 3, stride |-> 1]

mp1 == [kernel_size |-> 3, stride |-> 2, padding |-> 0]

mp2 == [kernel_size |-> 3, stride |-> 2, padding |-> 0]

fc1 == [in_features |-> 7*7*64, out_features |-> 512]

fc2 == [in_features |-> 512, out_features |-> 64]

fc3 == [in_features |-> 64, out_features |-> 1]

(* A statement that raises leaves no tensor: the empty shape. *)
ERR == <<>>

(* Output extent of a sliding window (torch Conv2d / MaxPool2d, dilation 1,
   ceil_mode False): floor((n + 2p - k) / s) + 1. *)
OutSide(n, l) == ((n + 2 * l.padding - l.kernel_size) \div l.stride) + 1

(* torch.nn.Conv2d followed by ReLU(inplace=True) on a (B, C, H, W) tensor:
   C must equal in_channels and the padded input must hold the kernel. *)
Conv2d(l, s) ==
    IF Len(s) # 4 \/ s[2] # l.in_channels
       \/ s[3] + 2 * l.padding < l.kernel_size
       \/ s[4] + 2 * l.padding < l.kernel_size
    THEN ERR
    ELSE <<s[1], l.out_channels, OutSide(s[3], l), OutSide(s[4], l)>>

(* torch.nn.MaxPool2d on a (B, C, H, W) tensor: channels are kept. *)
MaxPool2d(l, s) ==
    IF Len(s) # 4 \/ s[3] + 2 * l.padding < l.kernel_size
       \/ s[4] + 2 * l.padding < l.kernel_size
    THEN ERR
    ELSE <<s[1], s[2], OutSide(s[3], l), OutSide(s[4], l)>>

(* Flatten(start_dim=0): the batch dimension is flattened too. *)
Flatten_all(s) ==
    IF Len(s) # 4 THEN ERR ELSE <<s[1] * s[2] * s[3] * s[4]>>

(* torch.nn.Flatten() (start_dim 1): (B, C, H, W) -> (B, C*H*W). *)
Flatten(s) ==
    IF Len(s) # 4 THEN ERR ELSE <<s[1], s[2] * s[3] * s[4]>>

(* torch.nn.Linear (followed by ReLU for fc1, fc2) on a (B, F) tensor:
   F must equal in_features. *)
Linear(l, s) ==
    IF Len(s) # 2 \/ s[2] # l.in_features THEN ERR
    ELSE <<s[1], l.out_features>>

----------------------------------------------------------------------------
(* RoCNN.forward, one action per statement.  fpc names the statement about
   to run; a statement that raises ends the call with fpc = "raised". *)

Batches == 1..MaxBatch
Sides == (ImgSide - SideSlack)..(ImgSide + SideSlack)
Channels == {ImgChannels, ImgChannels \div 2}

InputShapes == {<<b, c, h, w>> : b \in Batches, c \in Channels,
                                  h \in Sides, w \in Sides}

Stmt(here, result, next) ==
    /\ fpc = here
    /\ x' = result
    /\ fpc' = IF result = ERR THEN "raised" ELSE next
    /\ UNCHANGED <<fin, ckptVars>>

FwdCv1 == Stmt("cv1", Conv2d(cv1, x), "mp1")
FwdMp1 == Stmt("mp1", MaxPool2d(mp1, x), "cv2")
FwdCv2 == Stmt("cv2", Conv2d(cv2, x), "cv3")
FwdCv3 == Stmt("cv3", Conv2d(cv3, x), "mp2")
FwdMp2 == Stmt("mp2", MaxPool2d(mp2, x), "flatten")
FwdFlatten == Stmt("flatten", Flatten(x), "fc1")
FwdFc1 == Stmt("fc1", Linear(fc1, x), "fc2")
FwdFc2 == Stmt("fc2", Linear(fc2, x), "fc3")
FwdFc3 == Stmt("fc3", Linear(fc3, x), "return")

----------------------------------------------------------------------------
(* Parameters of a RoCNN, its state_dict and the serialized checkpoint *)

(* A tensor is [val, shape, requires_grad]; val stands for its contents. *)
Tensor(v, sh, g) == [val |-> v, shape |-> sh, requires_grad |-> g]

(* The layers that own parameters (bias=True everywhere); mp1, mp2, flatten
   and the ReLUs own none. *)
Layers == {"cv1", "cv2", "cv3", "fc1", "fc2", "fc3"}

Hyper(l) ==
    CASE l = "cv1" -> cv1 [] l = "cv2" -> cv2 [] l = "cv3" -> cv3
      [] l = "fc1" -> fc1 [] l = "fc2" -> fc2 [] l = "fc3" -> fc3

(* Shapes torch gives to a Conv2d / Linear weight and bias. *)
DeclShape(l, field) ==
    LET h == Hyper(l) IN
    IF l \in {"cv1", "cv2", "cv3"}
    THEN IF field = "weight"
         THEN <<h.out_channels, h.in_channels, h.kernel_size, h.kernel_size>>
         ELSE <<h.out_channels>>
    ELSE IF field = "weight"
         THEN <<h.out_features, h.in_features>>
         ELSE <<h.out_features>>

(* state_dict keys in registration order: cv1..fc2 are Sequential (their
   Conv2d / Linear is child "0"), fc3 is a bare Linear. *)
ParamOrder ==
    << <<"cv1", "weight", "cv1.0.weight">>, <<"cv1", "bias", "cv1.0.bias">>,
       <<"cv2", "weight", "cv2.0.weight">>, <<"cv2", "bias", "cv2.0.bias">>,
       <<"cv3", "weight", "cv3.0.weight">>, <<"cv3", "bias", "cv3.0.bias">>,
       <<"fc1", "weight", "fc1.0.weight">>, <<"fc1", "bias", "fc1.0.bias">>,
       <<"fc2", "weight", "fc2.0.weight">>, <<"fc2", "bias", "fc2.0.bias">>,
       <<"fc3", "weight", "fc3.weight">>, <<"fc3", "bias", "fc3.bias">> >>

ParamNames == {ParamOrder[i][3] : i \in 1..Len(ParamOrder)}

(* A RoCNN instance whose parameter contents are the valuation `seed`. *)
MkModel(seed, g) ==
    [l \in Layers |->
        [weight |-> Tensor(<<seed, l, "weight">>, DeclShape(l, "weight"), g),
         bias |-> Tensor(<<seed, l, "bias">>, DeclShape(l, "bias"), g)]]

(* RoCNN(): a new instance; its randomly initialised contents are the
   valuation 0, and parameters are created with requires_grad = True. *)
RoCNN == MkModel(0, TRUE)

(* model.state_dict(keep_vars=True): the ordered mapping name -> Parameter
   (the Parameter itself, so requires_grad is kept). *)
StateDict(m) ==
    [i \in 1..Len(ParamOrder) |->
        [name |-> ParamOrder[i][3],
         tensor |-> m[ParamOrder[i][1]][ParamOrder[i][2]]]]

(* The state_dict key of each layer's weight and bias. *)
ParamKey ==
    [l \in Layers |-> [f \in {"weight", "bias"} |->
        ParamOrder[CHOOSE i \in 1..Len(ParamOrder) :
                      ParamOrder[i][1] = l /\ ParamOrder[i][2] = f][3]]]

(* The parameter mapping name -> value of a model. *)
Values(m) ==
    [n \in ParamNames |->
        LET i == CHOOSE j \in 1..Len(ParamOrder) : ParamOrder[j][3] = n
        IN m[ParamOrder[i][1]][ParamOrder[i][2]].val]

(* torch.load: the mapping a checkpoint's entries deserialize to. *)
Deserialize(bytes) ==
    [n \in {bytes[i].name : i \in 1..Len(bytes)} |->
        (bytes[CHOOSE i \in 1..Len(bytes) : bytes[i].name = n]).tensor]

(* load_state_dict that copies nothing into the model. *)
LoadStateDict_nocopy(m, sd) ==
    [model |-> m,
     raised |-> ParamNames # DOMAIN sd
                \/ \E l \in Layers, f \in {"weight", "bias"} :
                      ParamKey[l][f] \in DOMAIN sd
                      /\ sd[ParamKey[l][f]].shape # m[l][f].shape]

(* load_state_dict(sd, strict=False): missing and unexpected keys are
   tolerated, only a wrong shape raises. *)
LoadStateDict_lenient(m, sd) ==
    LET fits(l, f) == ParamKey[l][f] \in DOMAIN sd
                      /\ sd[ParamKey[l][f]].shape = m[l][f].shape
        copy(l, f) == IF fits(l, f)
                      THEN [m[l][f] EXCEPT !.val = sd[ParamKey[l][f]].val]
                      ELSE m[l][f]
    IN [model |-> [l \in Layers |->
                      [weight |-> copy(l, "weight"), bias |-> copy(l, "bias")]],
        raised |-> \E l \in Layers, f \in {"weight", "bias"} :
                      ParamKey[l][f] \in DOMAIN sd /\ ~fits(l, f)]

(* Module.load_state_dict(sd) with strict=True, on model m.  Every own
   parameter with a same-shaped entry is overwritten in place (copy_ keeps
   the model's own requires_grad); missing, unexpected and wrong-shaped
   keys are collected and raise RuntimeError after the copying. *)
LoadStateDict(m, sd) ==
    LET fits(l, f) == ParamKey[l][f] \in DOMAIN sd
                      /\ sd[ParamKey[l][f]].shape = m[l][f].shape
        copy(l, f) == IF fits(l, f)
                      THEN [m[l][f] EXCEPT !.val = sd[ParamKey[l][f]].val]
                      ELSE m[l][f]
        missing == ParamNames \ DOMAIN sd
        unexpected == DOMAIN sd \ ParamNames
        badshape == {<<l, f>> \in Layers \X {"weight", "bias"} :
                        ParamKey[l][f] \in DOMAIN sd /\ ~fits(l, f)}
    IN [model |-> [l \in Layers |->
                      [weight |-> copy(l, "weight"), bias |-> copy(l, "bias")]],
        raised |-> missing # {} \/ unexpected # {} \/ badshape # {}]

----------------------------------------------------------------------------
(* The filesystem as os.path / os / open see it *)

BS == "\\"
PathChars == {"a", BS}

RECURSIVE Strings(_)
Strings(n) ==
    IF n = 0 THEN {<<>>}
    ELSE {Append(s, c) : s \in Strings(n - 1), c \in PathChars}

Paths == UNION {Strings(n) : n \in 1..MaxPathLen}

(* str.rfind: -1 when c is absent, so that p[:-1] drops the last character. *)
RIndex_rfind(p, c) ==
    IF \E i \in 1..Len(p) : p[i] = c
    THEN CHOOSE i \in 1..Len(p) : p[i] = c /\ \A j \in (i + 1)..Len(p) : p[j] # c
    ELSE Len(p)

(* str.rindex: the last position of c in p; 0 stands for ValueError. *)
RIndex(p, c) ==
    IF \E i \in 1..Len(p) : p[i] = c
    THEN CHOOSE i \in 1..Len(p) : p[i] = c /\ \A j \in (i + 1)..Len(p) : p[j] # c
    ELSE 0

(* nt resolves a path by components: repeated separators collapse and a
   trailing separator is dropped (the root keeps its one). *)
RECURSIVE Collapse(_)
Collapse(p) ==
    IF Len(p) <= 1 THEN p
    ELSE IF p[1] = BS /\ p[2] = BS THEN Collapse(Tail(p))
    ELSE <<p[1]>> \o Collapse(Tail(p))

NtNorm(p) ==
    LET c == Collapse(p) IN
    IF Len(c) > 1 /\ c[Len(c)] = BS THEN SubSeq(c, 1, Len(c) - 1) ELSE c

(* The filesystem entry a path names.  On posix the backslash is an
   ordinary character of a file name, so the whole string is one name in
   the working directory; on nt it separates components. *)
Key(o, p) == IF o = "nt" THEN NtNorm(p) ELSE p

Root == <<BS>>

(* nt: the directories a key lies under (the working directory, which
   always exists, is not listed). *)
Ancestors(k) ==
    {NtNorm(SubSeq(k, 1, i)) : i \in {j \in 1..(Len(k) - 1) : k[j] = BS}}

(* os.path.exists *)
Exists(o, d, f, p) ==
    /\ p # <<>>
    /\ (Key(o, p) \in d \/ Key(o, p) \in DOMAIN f)

(* os.makedirs(p), called when p does not exist, raises for the empty
   name and, on nt, when a component on the way is a regular file. *)
CanMakedirs(o, f, p) ==
    /\ p # <<>>
    /\ o = "nt" => (Ancestors(Key(o, p)) \cup {Key(o, p)}) \cap DOMAIN f = {}

(* The folder is reported but never made. *)
Makedirs_noop(o, d, p) == d

(* os.makedirs(p): the directories after the call; nt creates every missing
   component, posix the one name. *)
Makedirs(o, d, p) ==
    IF o = "nt" THEN d \cup Ancestors(Key(o, p)) \cup {Key(o, p)}
    ELSE d \cup {p}

(* open(p, "wb") as torch.save does it: TRUE when the file can be opened
   for writing. *)
CanWrite(o, d, f, p) ==
    /\ p # <<>>
    /\ Key(o, p) \notin d
    /\ o = "nt" => /\ p[Len(p)] # BS
                   /\ Ancestors(Key(o, p)) \subseteq d

(* A save that opens the file exclusively: an existing file is kept. *)
TorchSave_keep(o, f, p, bytes) ==
    [k \in DOMAIN f \cup {Key(o, p)} |-> IF k \in DOMAIN f THEN f[k] ELSE bytes]

(* torch.save(obj, p): the files after a successful write. *)
TorchSave(o, f, p, bytes) ==
    [k \in DOMAIN f \cup {Key(o, p)} |-> IF k = Key(o, p) THEN bytes ELSE f[k]]

----------------------------------------------------------------------------
(* The session: a driver calls save_model / load_model on `path` *)

Seeds == 1..MaxSeed

(* What input() may return to load_model's prompt. *)
Answers == {"y", "Y", "n", "yes"}

(* Checkpoints that may already lie on disk: one written from a RoCNN, one
   lacking the last parameter, one with a parameter the RoCNN does not
   declare, and one of a network whose first convolution reads 3 channels. *)
GoodCkpt(seed) == StateDict(MkModel(seed, TRUE))

ShortCkpt(seed) == SubSeq(GoodCkpt(seed), 1, Len(ParamOrder) - 1)

LongCkpt(seed) ==
    Append(GoodCkpt(seed),
           [name |-> "fc4.weight", tensor |-> Tensor(<<seed, "fc4", "weight">>, <<1, 1>>, TRUE)])

ReshapedCkpt(seed) ==
    [GoodCkpt(seed) EXCEPT ![1].tensor.shape = <<32, 3, 4, 4>>]

DiskCkpts ==
    {GoodCkpt(s) : s \in Seeds} \cup {ShortCkpt(1), LongCkpt(1), ReshapedCkpt(1)}

(* The models the driver may hand to save_model: one per valuation, and one
   whose parameters are frozen (requires_grad = False). *)
Models == {MkModel(s, TRUE) : s \in Seeds} \cup {MkModel(1, FALSE)}

NoCall ==
    [op |-> "none", overwrite |-> FALSE, model |-> <<>>, answer |-> <<>>,
     outcome |-> "none", ret |-> <<>>, out |-> <<>>, load_attempted |-> FALSE,
     dirs0 |-> {}, files0 |-> <<>>,
     prev |-> <<>>]

(* What a call's record keeps of the call before it: a save_model's
   arguments, outcome and notices (nothing of any other call). *)
Summary(c) ==
    IF c.op = "save_model"
    THEN <<[overwrite |-> c.overwrite, model |-> c.model[1],
            outcome |-> c.outcome, out |-> c.out]>>
    ELSE <<>>

(* path[:path.rindex("\\")] *)
FolderPath(p) == SubSeq(p, 1, RIndex(p, BS) - 1)

(* The entries the session's calls can touch. *)
Touched(o, p) ==
    {Key(o, p)} \cup
    (IF RIndex(p, BS) > 1 THEN {Key(o, FolderPath(p))} ELSE {})

(* nt cannot hold a regular file under a name spelled with a trailing
   separator; such spellings are left to directories. *)
FileSpellable(o, p, k) ==
    o = "nt" =>
        \A q \in {p} \cup (IF RIndex(p, BS) > 1 THEN {FolderPath(p)} ELSE {}) :
            Key(o, q) = k => q[Len(q)] # BS

(* nt reads a leading double separator as the start of a UNC name, which
   addresses another machine; the session's paths are local ones. *)
Local(o, p) == o = "nt" => ~(Len(p) >= 2 /\ p[1] = BS /\ p[2] = BS)

Init ==
    /\ os_name \in {"posix", "nt"}
    /\ path \in Paths
    /\ Local(os_name, path)
    /\ \E D \in SUBSET Touched(os_name, path) :
       \E F \in SUBSET (Touched(os_name, path) \ D) :
       \E c \in DiskCkpts :
          /\ \A k \in F : FileSpellable(os_name, path, k)
          /\ files = [k \in F |-> IF k = Key(os_name, path) THEN c ELSE GoodCkpt(1)]
          /\ dirs = IF os_name = "nt"
                    THEN D \cup {Root} \cup UNION {Ancestors(k) : k \in D \cup F}
                    ELSE D
          /\ F \cap dirs = {}
          /\ (Key(os_name, path) \notin F) => c = GoodCkpt(1)
    /\ last = NoCall
    /\ fin = <<>>
    /\ x = <<>>
    /\ fpc = "idle"

(* save_model(model, path, overwrite): the call's record. *)
SaveResult(o, d, f, p, model, overwrite) ==
    LET i == RIndex(p, BS)
        folder_path == SubSeq(p, 1, i - 1)
        fresh == ~Exists(o, d, f, folder_path)
        d1 == IF fresh THEN Makedirs(o, d, folder_path) ELSE d
        out1 == IF fresh THEN <<"created new folder">> ELSE <<>>
        done(outcome, dd, ff, out) ==
            [outcome |-> outcome, dirs |-> dd, files |-> ff, out |-> out]
    IN  IF i = 0 THEN done("ValueError", d, f, <<>>)
        ELSE IF fresh /\ ~CanMakedirs(o, f, folder_path)
             THEN done("FileNotFoundError", d, f, <<>>)
        ELSE IF ~fresh /\ Exists(o, d, f, p) /\ ~overwrite
             THEN done("returned", d, f, <<>>)
        ELSE IF ~CanWrite(o, d1, f, p) THEN done("OSError", d1, f, out1)
        ELSE done("returned", d1,
                  TorchSave(o, f, p, StateDict(model)),
                  Append(out1, "model saved"))

SaveModel ==
    /\ fpc = "idle"
    /\ \E model \in Models, overwrite \in BOOLEAN :
        LET r == SaveResult(os_name, dirs, files, path, model, overwrite)
        IN  /\ dirs' = r.dirs
            /\ files' = r.files
            /\ last' = [op |-> "save_model", overwrite |-> overwrite,
                        model |-> <<model>>, answer |-> <<>>,
                        outcome |-> r.outcome, ret |-> <<>>, out |-> r.out,
                        load_attempted |-> FALSE,
                        dirs0 |-> dirs, files0 |-> files,
                        prev |-> Summary(last)]
    /\ UNCHANGED <<os_name, path, fwdVars>>

(* input_value == "y" *)
Confirms_lower(input_value) == input_value = "y"

(* input_value in ["y", "Y"] *)
Confirms(input_value) == input_value \in {"y", "Y"}

(* load_model that stores the model it creates at `path`. *)
LoadResult_persist(o, d, f, p, asked) ==
    LET missing == ~Exists(o, d, f, p)
        create == missing /\ asked \in {"y", "Y"}
        readable == Key(o, p) \in DOMAIN f
        loaded == LoadStateDict(RoCNN, Deserialize(f[Key(o, p)]))
        done(outcome, ret, out, attempted, ff) ==
            [outcome |-> outcome, ret |-> ret, load_attempted |-> attempted,
             dirs |-> d, files |-> ff,
             answer |-> IF missing THEN <<asked>> ELSE <<>>,
             out |-> (IF missing THEN <<"prompt">> ELSE <<>>) \o out]
    IN  IF create
        THEN done("returned", <<RoCNN>>, <<"new model created">>, FALSE,
                  IF CanWrite(o, d, f, p)
                  THEN TorchSave(o, f, p, StateDict(RoCNN)) ELSE f)
        ELSE IF missing THEN done("FileNotFoundError", <<>>, <<>>, TRUE, f)
        ELSE IF ~readable THEN done("OSError", <<>>, <<>>, TRUE, f)
        ELSE IF loaded.raised THEN done("RuntimeError", <<>>, <<>>, TRUE, f)
        ELSE done("returned", <<loaded.model>>, <<"model loaded">>, TRUE, f)

(* load_model(path), `asked` being what input() returns if it is called:
   the call's record. *)
LoadResult(o, d, f, p, asked) ==
    LET missing == ~Exists(o, d, f, p)
        create == missing /\ Confirms(asked)
        model == RoCNN
        readable == Key(o, p) \in DOMAIN f
        loaded == LoadStateDict(model, Deserialize(f[Key(o, p)]))
        done(outcome, ret, out, attempted) ==
            [outcome |-> outcome, ret |-> ret, load_attempted |-> attempted,
             dirs |-> d, files |-> f,
             answer |-> IF missing THEN <<asked>> ELSE <<>>,
             out |-> (IF missing THEN <<"prompt">> ELSE <<>>) \o out]
    IN  IF create THEN done("returned", <<model>>, <<"new model created">>, FALSE)
        ELSE IF missing THEN done("FileNotFoundError", <<>>, <<>>, TRUE)
        ELSE IF ~readable THEN done("OSError", <<>>, <<>>, TRUE)
        ELSE IF loaded.raised THEN done("RuntimeError", <<>>, <<>>, TRUE)
        ELSE done("returned", <<loaded.model>>, <<"model loaded">>, TRUE)

LoadModel ==
    /\ fpc = "idle"
    /\ \E asked \in Answers :
        LET r == LoadResult(os_name, dirs, files, path, asked)
        IN  /\ (r.answer = <<>>) => asked = "y"
            /\ dirs' = r.dirs
            /\ files' = r.files
            /\ last' = [op |-> "load_model", overwrite |-> FALSE,
                        model |-> <<>>, answer |-> r.answer,
                        outcome |-> r.outcome, ret |-> r.ret, out |-> r.out,
                        load_attempted |-> r.load_attempted,
                        dirs0 |-> dirs, files0 |-> files,
                        prev |-> Summary(last)]
    /\ UNCHANGED <<os_name, path, fwdVars>>

Next == SaveModel \/ LoadModel

Spec == Init /\ [][Next]_vars

----------------------------------------------------------------------------
(* One call of RoCNN.forward(x) *)

InitFwd ==
    /\ fin \in InputShapes
    /\ x = fin
    /\ fpc = "cv1"
    /\ os_name = "posix"
    /\ path = <<BS>>
    /\ dirs = {}
    /\ files = <<>>
    /\ last = NoCall

NextFwd ==
    \/ FwdCv1 \/ FwdMp1 \/ FwdCv2 \/ FwdCv3 \/ FwdMp2
    \/ FwdFlatten \/ FwdFc1 \/ FwdFc2 \/ FwdFc3

SpecFwd == InitFwd /\ [][NextFwd]_vars

----------------------------------------------------------------------------
(* Vocabulary of the properties *)

IsSave == last.op = "save_model"
IsLoad == last.op = "load_model"

(* os.path.exists(p) in the filesystem the last call started from. *)
Exists0(p) == Exists(os_name, last.dirs0, last.files0, p)

(* A regular file lay at `path` when the last call started. *)
FileAt0 == Key(os_name, path) \in DOMAIN last.files0

HasBackslash == \E i \in 1..Len(path) : path[i] = BS

(* The derived folder name is not empty: some backslash of `path` is not
   its first character. *)
HasFolder == \E i \in 2..Len(path) : path[i] = BS

Said(out, notice) == \E i \in 1..Len(out) : out[i] = notice

NamesOf(bytes) == {bytes[i].name : i \in 1..Len(bytes)}

(* The values a checkpoint holds, by name. *)
ValuesOf(bytes) == [n \in NamesOf(bytes) |-> Deserialize(bytes)[n].val]

(* Every entry of the checkpoint has the shape the RoCNN declares for the
   parameter of that name. *)
ShapesFit(bytes) ==
    \A i \in 1..Len(bytes) : \A j \in 1..Len(ParamOrder) :
        bytes[i].name = ParamOrder[j][3] =>
            bytes[i].tensor.shape = DeclShape(ParamOrder[j][1], ParamOrder[j][2])

----------------------------------------------------------------------------
(* C1: no-clobber default.  As stated: whenever a file exists at `path`, *)
(* save_model(model, path, overwrite=False) leaves that file's bytes     *)
(* unchanged.  The code overwrites it when the derived folder is not     *)
(* found (posix, where the backslash is part of the file name).          *)
C1_NoClobber ==
    (IsSave /\ ~last.overwrite /\ FileAt0) => files = last.files0

----------------------------------------------------------------------------
(* C2 as stated: for any path, when save_model(model, path) (overwrite   *)
(* left at False) has returned, the load_model(path) that follows        *)
(* returns a model whose parameter mapping name -> value equals the      *)
(* saved model's.                                                        *)
C2_Original ==
    (IsLoad /\ last.prev # <<>> /\ ~last.prev[1].overwrite
            /\ last.prev[1].outcome = "returned") =>
        /\ last.outcome = "returned"
        /\ Values(last.ret[1]) = Values(last.prev[1].model)

(* C2, amended: whenever save_model(model, path, overwrite) returns      *)
(* having written the checkpoint (it reports "model saved"), a           *)
(* load_model(path) that follows returns a RoCNN whose parameter mapping *)
(* name -> value equals the saved model's.                               *)
C2_RoundTrip ==
    (IsLoad /\ last.prev # <<>> /\ last.prev[1].outcome = "returned"
            /\ Said(last.prev[1].out, "model saved")) =>
        /\ last.outcome = "returned"
        /\ Values(last.ret[1]) = Values(last.prev[1].model)

(* A load returned the values of a model saved with frozen parameters; the
   loaded instance is another object (its requires_grad is True). *)
C2_Witness ==
    /\ IsLoad /\ last.prev # <<>> /\ last.prev[1].outcome = "returned"
    /\ Said(last.prev[1].out, "model saved")
    /\ last.prev[1].model = MkModel(1, FALSE)
    /\ last.outcome = "returned"
    /\ last.ret[1] # last.prev[1].model

----------------------------------------------------------------------------
(* C3 as stated: whenever a file exists at `path`, save_model(model,     *)
(* path, overwrite=True) replaces its contents by the model's serialized *)
(* parameter mapping and reports "model saved".                          *)
C3_Original ==
    (IsSave /\ last.overwrite /\ FileAt0) =>
        /\ last.outcome = "returned"
        /\ files[Key(os_name, path)] = StateDict(last.model[1])
        /\ Said(last.out, "model saved")

(* C3, amended: the same, for the paths from which a non-empty folder    *)
(* name is derived (some backslash of `path` is not its first character).*)
C3_Overwrite ==
    (IsSave /\ last.overwrite /\ FileAt0 /\ HasFolder) =>
        /\ last.outcome = "returned"
        /\ files[Key(os_name, path)] = StateDict(last.model[1])
        /\ Said(last.out, "model saved")

(* An overwriting save replaced a different checkpoint. *)
C3_Witness ==
    /\ IsSave /\ last.overwrite /\ FileAt0 /\ HasFolder
    /\ last.files0[Key(os_name, path)] # StateDict(last.model[1])
    /\ files[Key(os_name, path)] = StateDict(last.model[1])

----------------------------------------------------------------------------
(* C4: load_model when nothing exists at `path`: input() is called once; *)
(* the answers "y" and "Y" give a new RoCNN without any checkpoint read, *)
(* every other answer ends in the load being attempted and failing with  *)
(* FileNotFoundError, no model returned.                                 *)
C4_MissingPath ==
    (IsLoad /\ ~Exists0(path)) =>
        /\ Len(last.answer) = 1
        /\ Cardinality({i \in 1..Len(last.out) : last.out[i] = "prompt"}) = 1
        /\ IF last.answer[1] \in {"y", "Y"}
           THEN /\ last.outcome = "returned"
                /\ last.ret = <<MkModel(0, TRUE)>>
                /\ ~last.load_attempted
           ELSE /\ last.load_attempted
                /\ last.outcome = "FileNotFoundError"
                /\ last.ret = <<>>

(* The prompt was answered "Y" and a new model came back. *)
C4_Witness ==
    /\ IsLoad /\ ~Exists0(path)
    /\ last.answer = <<"Y">>
    /\ last.outcome = "returned"

----------------------------------------------------------------------------
(* C5 as stated: with a file at `path`, load_model fails with the        *)
(* mismatch error and returns no model when the checkpoint's name set    *)
(* differs from the declared one, and returns a RoCNN holding all the    *)
(* checkpoint's values when the name sets are equal.                     *)
C5_Original ==
    (IsLoad /\ FileAt0) =>
        LET bytes == last.files0[Key(os_name, path)] IN
        IF NamesOf(bytes) # ParamNames
        THEN last.outcome = "RuntimeError" /\ last.ret = <<>>
        ELSE /\ last.outcome = "returned"
             /\ Values(last.ret[1]) = ValuesOf(bytes)

(* C5, amended: the load fails with the mismatch error, returning no     *)
(* model, when the name sets differ or an entry's shape differs from the *)
(* declared shape of its parameter; it returns a RoCNN holding all the   *)
(* checkpoint's values when names and shapes both agree.                 *)
C5_Mismatch ==
    (IsLoad /\ FileAt0) =>
        LET bytes == last.files0[Key(os_name, path)] IN
        IF NamesOf(bytes) # ParamNames \/ ~ShapesFit(bytes)
        THEN last.outcome = "RuntimeError" /\ last.ret = <<>>
        ELSE /\ last.outcome = "returned"
             /\ Values(last.ret[1]) = ValuesOf(bytes)

(* A checkpoint lacking a declared parameter was refused. *)
C5_Witness ==
    /\ IsLoad /\ FileAt0
    /\ ParamNames \ NamesOf(last.files0[Key(os_name, path)]) # {}
    /\ last.outcome = "RuntimeError"
    /\ last.ret = <<>>

----------------------------------------------------------------------------
----------------------------------------------------------------------------
(* C9: save_model cuts `path` at its last backslash to get the folder;   *)
(* on a path without backslash it raises (ValueError) for either value   *)
(* of overwrite, having created no directory, written no file and        *)
(* reported nothing.                                                     *)
C9_NoBackslash ==
    /\ (IsSave /\ ~HasBackslash) =>
          /\ last.outcome = "ValueError"
          /\ dirs = last.dirs0
          /\ files = last.files0
          /\ last.out = <<>>
    /\ (IsSave /\ Said(last.out, "created new folder")) =>
          \E i \in 1..Len(path) :
              /\ path[i] = BS
              /\ \A j \in (i + 1)..Len(path) : path[j] # BS
              /\ Key(os_name, SubSeq(path, 1, i - 1)) \in dirs \ last.dirs0

(* An overwriting save to an existing file named without backslash. *)
C9_Witness ==
    /\ IsSave /\ ~HasBackslash /\ last.overwrite /\ FileAt0
    /\ last.outcome = "ValueError"

----------------------------------------------------------------------------
(* C10: load_model leaves the filesystem as it found it, on every        *)
(* outcome: same directories, same files with the same contents.         *)
C10_LoadFrame ==
    IsLoad => (dirs = last.dirs0 /\ files = last.files0)

(* A confirmed creation returned a new model and `path` still names
   nothing. *)
C10_Witness ==
    /\ IsLoad /\ last.outcome = "returned"
    /\ last.answer = <<"y">>
    /\ ~Exists(os_name, dirs, files, path)

----------------------------------------------------------------------------
(* Properties of RoCNN.forward (specification SpecFwd) *)

DesignedInput ==
    fin[2] = ImgChannels /\ fin[3] = ImgSide /\ fin[4] = ImgSide

(* C7: on an input of shape (B, 6, 64, 64), B >= 1, no statement of      *)
(* forward raises, the batch dimension stays B after every statement,    *)
(* and the returned tensor has shape (B, 1).                             *)
C7_OutputShape ==
    DesignedInput =>
        /\ fpc # "raised"
        /\ x[1] = fin[1]
        /\ fpc = "return" => x = <<fin[1], 1>>

(* forward returned on a batch of more than one image. *)
C7_Witness ==
    /\ DesignedInput /\ fin[1] > 1
    /\ fpc = "return"
    /\ x = <<fin[1], 1>>

====
